---- MODULE Spec2Model ----
(***************************************************************************)
(* State-machine model of firefox_decrypt.py: library discovery            *)
(* (find_nss), the NSS session proxy (NSSProxy), the decryption run        *)
(* (MozillaInteraction.decrypt_passwords) and the module-level driver      *)
(* that loops over the profiles of profiles.ini.                           *)
(*                                                                         *)
(* The variable "entry" names the function whose call is being explored:   *)
(* the whole driver, or find_nss / authenticate / decrypt_passwords called  *)
(* on their own with arguments the driver itself never passes.             *)
(***************************************************************************)
EXTENDS Integers, Sequences, FiniteSets, TLC

\* ---------------------------------------------------------------- bounds
MaxLocs == 3
MaxRecords == 2
MaxProfiles == 2

\* ------------------------------------------------------------- constants
Systems == {"Windows", "Darwin", "Linux"}
OS == {"Windows", "Darwin"}
DirNames == {"/usr/lib", "/opt/firefox"}
Candidates == {""} \cup DirNames
Sentinel == "*** decryption failed ***"

RECURSIVE SeqsUpTo(_, _)
SeqsUpTo(S, n) ==
    IF n = 0 THEN {<<>>}
    ELSE LET shorter == SeqsUpTo(S, n - 1)
         IN  shorter \cup {Append(s, x) : s \in {t \in shorter : Len(t) = n - 1}, x \in S}

VARIABLES
    pc, entry, exc,
    \* process environment
    SYSTEM, dirs, PATH, cwd,
    \* find_nss
    locations, li, fail_errors, workdir, nss, attempts, considered, path0, cwd0,
    \* NSSProxy: the library session and authenticate
    pending, interactive, isatty, keyslot, needLogin, password, pwReads,
    checkCalls, slotsAcquired, slotsFreed, introspections,
    \* MozillaInteraction.decrypt_passwords and the credential source
    non_fatal, files, probes, credentials, doc, cursor, ri, yielded, skipped,
    cur, calls, outputs, caught, doneCalls, secAcquired, secFreed,
    \* module-level driver
    sections, si, visited, invalid, completed

ctlVars == <<pc, entry, exc>>
envVars == <<SYSTEM, dirs, PATH, cwd>>
findVars == <<locations, li, fail_errors, workdir, nss, attempts, considered, path0, cwd0>>
authVars == <<pending, interactive, isatty, keyslot, needLogin, password, pwReads,
              checkCalls, slotsAcquired, slotsFreed, introspections>>
decVars == <<non_fatal, files, probes, credentials, doc, cursor, ri, yielded,
             skipped, cur, calls, outputs, caught, doneCalls, secAcquired, secFreed>>
drvVars == <<sections, si, visited, invalid, completed>>
vars == <<ctlVars, envVars, findVars, authVars, decVars, drvVars>>
otherThanFind == <<authVars, decVars, drvVars>>
otherThanAuth == <<decVars, drvVars>>
otherThanDec == <<drvVars>>

NoLib == [loaded |-> FALSE, from |-> "", index |-> 0]

\* ------------------------------------------------------------- find_nss
\* the candidate of the running iteration of "for loc in locations"
loc == locations[li]

\* os.path.isdir(loc)
IsDir(l) == l \in dirs

\* a directory test dropped from the loop: nothing is ever skipped
SkipCandidate_NeverSkips(sys, l) == FALSE

\* "if SYSTEM in OS: ... if loc: if not os.path.isdir(loc): continue"
SkipCandidate(sys, l) == sys \in OS /\ l # "" /\ ~IsDir(l)

\* os.environ["PATH"] = ";".join([loc, os.environ["PATH"]]), run before the
\* directory test, on Windows and Darwin only
PathAfter(sys, l, path) == IF sys \in OS THEN <<l>> \o path ELSE path

\* outcomes ct.CDLL(os.path.join(loc, nssname)) can have: a file below a
\* directory that does not exist cannot be opened; the default loader ("")
\* or an existing directory may or may not hold a loadable library
LoadOutcomes(l) == IF l # "" /\ ~IsDir(l) THEN {FALSE} ELSE BOOLEAN

\* where control goes when find_nss returns the handle
FindReturnPc == IF entry = "find_nss" THEN "returned" ELSE "bind"
\* Exit(FAIL_LOCATE_NSS) is raised outside every try of the driver
FindRaisePc == IF entry = "find_nss" THEN "raised" ELSE "aborted"

\* loop head, candidate skipped by "continue" (PATH already extended)
FindSkip ==
    /\ pc = "find_loop"
    /\ li < Len(locations)
    /\ SkipCandidate(SYSTEM, locations[li + 1])
    /\ li' = li + 1
    /\ considered' = Append(considered, li + 1)
    /\ PATH' = PathAfter(SYSTEM, locations[li + 1], PATH)
    /\ UNCHANGED <<pc, entry, exc, SYSTEM, dirs, cwd, locations, fail_errors,
                   workdir, nss, attempts, path0, cwd0>>
    /\ UNCHANGED otherThanFind

\* loop head, candidate kept: PATH extended, chdir(loc) for a non-empty loc
FindEnter ==
    /\ pc = "find_loop"
    /\ li < Len(locations)
    /\ ~SkipCandidate(SYSTEM, locations[li + 1])
    /\ li' = li + 1
    /\ considered' = Append(considered, li + 1)
    /\ PATH' = PathAfter(SYSTEM, locations[li + 1], PATH)
    /\ IF SYSTEM \in OS /\ locations[li + 1] # ""
       THEN workdir' = cwd /\ cwd' = locations[li + 1]
       ELSE UNCHANGED <<workdir, cwd>>
    /\ pc' = "find_load"
    /\ UNCHANGED <<entry, exc, SYSTEM, dirs, locations, fail_errors, nss,
                   attempts, path0, cwd0>>
    /\ UNCHANGED otherThanFind

\* try: nss = ct.CDLL(nsslib) ... else: return nss (through the finally)
FindLoadOk ==
    /\ pc = "find_load"
    /\ TRUE \in LoadOutcomes(loc)
    /\ attempts' = Append(attempts, [index |-> li, loc |-> loc, ok |-> TRUE])
    /\ nss' = [loaded |-> TRUE, from |-> loc, index |-> li]
    /\ pc' = "find_finally"
    /\ UNCHANGED <<entry, exc, envVars, locations, li, fail_errors, workdir,
                   considered, path0, cwd0>>
    /\ UNCHANGED otherThanFind

\* except OSError as e: fail_errors.append((nsslib, str(e)))
FindLoadFail ==
    /\ pc = "find_load"
    /\ FALSE \in LoadOutcomes(loc)
    /\ attempts' = Append(attempts, [index |-> li, loc |-> loc, ok |-> FALSE])
    /\ fail_errors' = Append(fail_errors, loc)
    /\ pc' = "find_finally"
    /\ UNCHANGED <<entry, exc, envVars, locations, li, workdir, nss,
                   considered, path0, cwd0>>
    /\ UNCHANGED otherThanFind

\* a finally clause that forgets os.chdir(workdir)
CwdAfterFinally_NoRestore(sys, l, wd, here) == here

\* the working directory the finally clause leaves behind
CwdAfterFinally(sys, l, wd, here) == IF sys \in OS /\ l # "" THEN wd ELSE here

\* a loop that keeps going after a successful load (the last load wins)
AfterFinallyPc_LastWins(loaded) ==
    IF loaded /\ li = Len(locations) THEN FindReturnPc ELSE "find_loop"

\* "else: return nss" leaves the loop, a failed load goes to the next candidate
AfterFinallyPc(loaded) == IF loaded THEN FindReturnPc ELSE "find_loop"

\* finally: if SYSTEM in OS and loc: os.chdir(workdir); then return or loop
FindFinally ==
    /\ pc = "find_finally"
    /\ cwd' = CwdAfterFinally(SYSTEM, loc, workdir, cwd)
    /\ pc' = AfterFinallyPc(nss.loaded)
    /\ UNCHANGED <<entry, exc, SYSTEM, dirs, PATH, findVars>>
    /\ UNCHANGED otherThanFind

\* for ... else: log the errors seen and raise Exit(Exit.FAIL_LOCATE_NSS)
FindExhausted ==
    /\ pc = "find_loop"
    /\ li = Len(locations)
    /\ exc' = "Exit.FAIL_LOCATE_NSS"
    /\ pc' = FindRaisePc
    /\ UNCHANGED <<entry, envVars, findVars>>
    /\ UNCHANGED otherThanFind

\* ------------------------------------------------- NSSProxy.authenticate
PrimaryPassword == "hunter2"
Passwords == {"", "hunter2", "letmein"}

\* PK11_CheckUserPassword(keyslot, password): 0 for the profile's password
CheckUserPassword(pw) == IF pw = PrimaryPassword THEN 0 ELSE -1

\* where control goes when authenticate returns / raises
AuthReturnPc == IF entry = "authenticate" THEN "returned" ELSE "dp_obtain"
AuthRaisePc == IF entry = "authenticate" THEN "raised" ELSE "except"

AuthInit ==
    /\ keyslot = "none"
    /\ needLogin = "unasked"
    /\ password = "unset"
    /\ pwReads = 0
    /\ checkCalls = <<>>
    /\ slotsAcquired = 0
    /\ slotsFreed = 0
    /\ introspections = <<>>

\* NSSProxy.handle_error: PORT_GetError, PR_ErrorToName, PR_ErrorToString,
\* LOG.debug, raise Exit(exitcode); the log keeps the exit code raised
handle_error(exitcode) == Append(introspections, exitcode)

\* keyslot = self._PK11_GetInternalKeySlot(), a slot was returned
AuthGetSlot ==
    /\ pc = "auth_slot"
    /\ keyslot' = "held"
    /\ slotsAcquired' = slotsAcquired + 1
    /\ pc' = "auth_needlogin"
    /\ UNCHANGED <<entry, exc, envVars, findVars, pending, interactive, isatty,
                   needLogin, password, pwReads, checkCalls, slotsFreed,
                   introspections>>
    /\ UNCHANGED otherThanAuth

\* if not keyslot: self.handle_error(Exit.FAIL_NSS_KEYSLOT, ...), before the try
AuthSlotNull ==
    /\ pc = "auth_slot"
    /\ keyslot' = "null"
    /\ introspections' = handle_error("Exit.FAIL_NSS_KEYSLOT")
    /\ exc' = "Exit.FAIL_NSS_KEYSLOT"
    /\ pc' = AuthRaisePc
    /\ UNCHANGED <<entry, envVars, findVars, pending, interactive, isatty,
                   needLogin, password, pwReads, checkCalls, slotsAcquired,
                   slotsFreed>>
    /\ UNCHANGED otherThanAuth

\* a branch that asks for the password whatever PK11_NeedLogin says
AfterNeedLoginPc_AlwaysAsk(need) == "auth_ask"

\* if self._PK11_NeedLogin(keyslot): ... else: LOG.info(...)
AfterNeedLoginPc(need) == IF need THEN "auth_ask" ELSE "auth_free"

AuthNeedLogin ==
    /\ pc = "auth_needlogin"
    /\ \E need \in BOOLEAN :
          /\ needLogin' = (IF need THEN "yes" ELSE "no")
          /\ pc' = AfterNeedLoginPc(need)
    /\ UNCHANGED <<entry, exc, envVars, findVars, pending, interactive, isatty,
                   keyslot, password, pwReads, checkCalls, slotsAcquired,
                   slotsFreed, introspections>>
    /\ UNCHANGED otherThanAuth

\* ask_password(profile, interactive): getpass() at an interactive terminal
\* (which raises EOFError when the terminal is closed), otherwise one line of
\* standard input with the newline stripped ("" at end of input)
AuthAskPassword ==
    /\ pc = "auth_ask"
    /\ pwReads' = pwReads + 1
    /\ \/ \E pw \in Passwords :
             /\ password' = pw
             /\ pc' = "auth_check"
             /\ exc' = exc
       \/ /\ isatty /\ interactive
          /\ password' = password
          /\ exc' = "EOFError"
          /\ pc' = "auth_free"
    /\ UNCHANGED <<entry, envVars, findVars, pending, interactive, isatty,
                   keyslot, needLogin, checkCalls, slotsAcquired, slotsFreed,
                   introspections>>
    /\ UNCHANGED otherThanAuth

\* err_status = self._PK11_CheckUserPassword(keyslot, password)
\* if err_status: self.handle_error(Exit.BAD_PRIMARY_PASSWORD, ...)
AuthCheckPassword ==
    /\ pc = "auth_check"
    /\ LET err_status == CheckUserPassword(password) IN
          /\ checkCalls' = Append(checkCalls, [password |-> password, status |-> err_status])
          /\ IF err_status # 0
             THEN /\ introspections' = handle_error("Exit.BAD_PRIMARY_PASSWORD")
                  /\ exc' = "Exit.BAD_PRIMARY_PASSWORD"
             ELSE UNCHANGED <<introspections, exc>>
    /\ pc' = "auth_free"
    /\ UNCHANGED <<entry, envVars, findVars, pending, interactive, isatty,
                   keyslot, needLogin, password, pwReads, slotsAcquired,
                   slotsFreed>>
    /\ UNCHANGED otherThanAuth

\* finally: self._PK11_FreeSlot(keyslot); then return, or let the error go on
AuthFreeSlot ==
    /\ pc = "auth_free"
    /\ keyslot' = "freed"
    /\ slotsFreed' = slotsFreed + 1
    /\ pc' = IF exc = "none" THEN AuthReturnPc ELSE AuthRaisePc
    /\ UNCHANGED <<entry, exc, envVars, findVars, pending, interactive, isatty,
                   needLogin, password, pwReads, checkCalls, slotsAcquired,
                   introspections>>
    /\ UNCHANGED otherThanAuth

\* ------------------------------------ credential sources and NSSProxy.decrypt
Files == {"logins.json", "signons.sqlite"}
Host == "https://example.com"
Damaged == "damaged"
NotText == "enc:\\xff"

\* rows of moz_logins / complete entries of the logins array
CompleteEntries ==
    {[hostname |-> Host, encryptedUsername |-> u, encryptedPassword |-> p,
      encType |-> 1, missing |-> ""] :
        u \in {"enc:alice", Damaged}, p \in {"enc:s3cret", Damaged}}
    \cup {[hostname |-> Host, encryptedUsername |-> "enc:alice",
           encryptedPassword |-> NotText, encType |-> 1, missing |-> ""],
          [hostname |-> Host, encryptedUsername |-> "enc:alice",
           encryptedPassword |-> "enc:s3cret", encType |-> 0, missing |-> ""]}

\* entries of logins.json left behind by a deleted password (a key is absent)
IncompleteEntries ==
    {[hostname |-> Host, encryptedUsername |-> "enc:alice", encryptedPassword |-> "",
      encType |-> 1, missing |-> "encryptedPassword"],
     [hostname |-> Host, encryptedUsername |-> "enc:alice",
      encryptedPassword |-> "enc:s3cret", encType |-> 0, missing |-> "encType"]}

JsonDocs ==
    {[hasLogins |-> FALSE, entries |-> <<>>]}
    \cup {[hasLogins |-> TRUE, entries |-> e] :
             e \in SeqsUpTo(CompleteEntries \cup IncompleteEntries, MaxRecords)}
SqliteDbs ==
    {[hasLogins |-> TRUE, entries |-> e] : e \in SeqsUpTo(CompleteEntries, MaxRecords)}

NoDoc == [hasLogins |-> TRUE, entries |-> <<>>]
NoRec == [url |-> "", user |-> "", passw |-> "", enctype |-> 0]

\* PK11SDR_Decrypt: status -1 for damaged data, 0 otherwise
SDRStatus(c) == IF c = Damaged THEN -1 ELSE 0
\* the text the decrypted bytes decode to
Plaintext(c) ==
    CASE c = "enc:alice" -> "alice"
      [] c = "enc:s3cret" -> "s3cret"
      [] OTHER -> ""
\* out.decode_data(): the decrypted bytes are valid UTF-8
Decodes(c) == c # NotText

\* a release placed after the try block: reached when decrypt returns only
ZfreeItemCalls_AfterTry(kind) == IF kind = "ok" THEN 1 ELSE 0

\* finally: self._SECITEM_ZfreeItem(out, 0): the number of releases of the
\* output buffer, however the try block of decrypt is left
ZfreeItemCalls(kind) == 1

\* NSSProxy.decrypt(data64): the exception it leaves with ("ok" when it
\* returns res), and whether handle_error ran
decrypt(c, nonfatal) ==
    IF SDRStatus(c) # 0
    THEN IF nonfatal
         THEN [kind |-> "ValueError", res |-> "", introspect |-> FALSE]
         ELSE [kind |-> "Exit.DECRYPTION_FAILED", res |-> "", introspect |-> TRUE]
    ELSE IF ~Decodes(c)
         THEN [kind |-> "ValueError", res |-> "", introspect |-> FALSE]
         ELSE [kind |-> "ok", res |-> Plaintext(c), introspect |-> FALSE]

\* MozillaInteraction.obtain_credentials: JsonCredentials first,
\* SqliteCredentials when logins.json is not a file, Exit(MISSING_SECRETS)
\* when signons.sqlite is not a file either
obtain_credentials(fs) ==
    IF "logins.json" \in fs
    THEN [kind |-> "json", probes |-> <<"json">>, exc |-> "none"]
    ELSE IF "signons.sqlite" \in fs
         THEN [kind |-> "sqlite", probes |-> <<"json", "sqlite">>, exc |-> "none"]
         ELSE [kind |-> "none", probes |-> <<"json", "sqlite">>,
               exc |-> "Exit.MISSING_SECRETS"]

DpReturnPc == IF entry = "decrypt_passwords" THEN "returned" ELSE "output"
DpRaisePc == IF entry = "decrypt_passwords" THEN "raised" ELSE "except"

\* values the per-call variables have when decrypt_passwords is entered
DecInit ==
    /\ files = {}
    /\ probes = <<>>
    /\ credentials = "none"
    /\ doc = NoDoc
    /\ cursor = 0
    /\ ri = 0
    /\ yielded = <<>>
    /\ skipped = 0
    /\ cur = NoRec
    /\ calls = <<>>
    /\ outputs = <<>>
    /\ caught = "none"
    /\ doneCalls = 0
    /\ secAcquired = 0
    /\ secFreed = 0

\* outputs = []; credentials = self.obtain_credentials() found a source
DpOpen ==
    /\ pc = "dp_obtain"
    /\ \E fs \in SUBSET Files :
          LET o == obtain_credentials(fs) IN
          /\ o.exc = "none"
          /\ files' = fs
          /\ probes' = o.probes
          /\ credentials' = o.kind
          /\ \E d \in (IF o.kind = "json" THEN JsonDocs ELSE SqliteDbs) : doc' = d
    /\ outputs' = <<>>
    /\ pc' = "dp_iter"
    /\ UNCHANGED <<entry, exc, envVars, findVars, authVars, non_fatal, cursor, ri,
                   yielded, skipped, cur, calls, caught, doneCalls, secAcquired,
                   secFreed>>
    /\ UNCHANGED otherThanDec

\* an "except" that lets the error of obtain_credentials go on to the caller
AfterObtainError_Reraise(e) == [pc |-> DpRaisePc, exc |-> e, caught |-> "none"]

\* except: print("\tNo password database found for this profile"); return outputs
AfterObtainError(e) == [pc |-> DpReturnPc, exc |-> "none", caught |-> e]

\* outputs = []; obtain_credentials raised, the bare except returns outputs
DpNoStore ==
    /\ pc = "dp_obtain"
    /\ \E fs \in SUBSET Files :
          LET o == obtain_credentials(fs) IN
          /\ o.exc # "none"
          /\ files' = fs
          /\ probes' = o.probes
          /\ credentials' = o.kind
          /\ pc' = AfterObtainError(o.exc).pc
          /\ exc' = AfterObtainError(o.exc).exc
          /\ caught' = AfterObtainError(o.exc).caught
    /\ outputs' = <<>>
    /\ UNCHANGED <<entry, envVars, findVars, authVars, non_fatal, doc, cursor, ri,
                   yielded, skipped, cur, calls, doneCalls, secAcquired, secFreed>>
    /\ UNCHANGED otherThanDec

\* JsonCredentials.__iter__: data["logins"] fails, raise Exit(Exit.BAD_SECRETS)
DpCorrupt ==
    /\ pc = "dp_iter"
    /\ ~doc.hasLogins
    /\ exc' = "Exit.BAD_SECRETS"
    /\ pc' = DpRaisePc
    /\ UNCHANGED <<entry, envVars, findVars, authVars, decVars>>
    /\ UNCHANGED otherThanDec

\* an iterator that reads hostname, encryptedUsername and encryptedPassword only
IsComplete_ThreeKeys(e) ==
    e.missing \notin {"hostname", "encryptedUsername", "encryptedPassword"}

\* the keys __iter__ reads from an entry are all there
IsComplete(e) == e.missing = ""

\* JsonCredentials.__iter__: KeyError, "Skipped record ... due to missing fields"
DpSkip ==
    /\ pc = "dp_iter"
    /\ doc.hasLogins
    /\ cursor < Len(doc.entries)
    /\ ~IsComplete(doc.entries[cursor + 1])
    /\ cursor' = cursor + 1
    /\ skipped' = skipped + 1
    /\ UNCHANGED <<pc, entry, exc, envVars, findVars, authVars, non_fatal, files,
                   probes, credentials, doc, ri, yielded, cur, calls, outputs,
                   caught, doneCalls, secAcquired, secFreed>>
    /\ UNCHANGED otherThanDec

\* a loop body that sends every record through decrypt
NeedsDecrypt_Always(enctype) == TRUE

\* "if enctype:" enctype informs if passwords need to be decrypted
NeedsDecrypt(enctype) == enctype # 0

\* the source yields (hostname, encryptedUsername, encryptedPassword, encType)
\* and the loop body tests enctype
DpYield ==
    /\ pc = "dp_iter"
    /\ doc.hasLogins
    /\ cursor < Len(doc.entries)
    /\ IsComplete(doc.entries[cursor + 1])
    /\ LET e == doc.entries[cursor + 1] IN
          /\ cur' = [url |-> e.hostname, user |-> e.encryptedUsername,
                     passw |-> e.encryptedPassword, enctype |-> e.encType]
          /\ pc' = IF NeedsDecrypt(e.encType) THEN "dp_dec_user" ELSE "dp_append"
    /\ cursor' = cursor + 1
    /\ ri' = ri + 1
    /\ yielded' = Append(yielded, cursor + 1)
    /\ UNCHANGED <<entry, exc, envVars, findVars, authVars, non_fatal, files,
                   probes, credentials, doc, skipped, calls, outputs, caught,
                   doneCalls, secAcquired, secFreed>>
    /\ UNCHANGED otherThanDec

\* a handler that goes on to decrypt the password after the username failed
AfterIdentityPc_StillSecret(kind) ==
    CASE kind = "ok" -> "dp_dec_pass"
      [] kind = "ValueError" -> "dp_dec_pass"
      [] OTHER -> DpRaisePc

\* user = self.proxy.decrypt(user) inside "try ... except (TypeError, ValueError)"
AfterIdentityPc(kind) ==
    CASE kind = "ok" -> "dp_dec_pass"
      [] kind = "ValueError" -> "dp_sentinel"
      [] OTHER -> DpRaisePc

\* user = self.proxy.decrypt(user)
DpDecryptUser ==
    /\ pc = "dp_dec_user"
    /\ LET r == decrypt(cur.user, non_fatal) IN
          /\ calls' = Append(calls, [rec |-> ri, field |-> "user", data |-> cur.user])
          /\ cur' = IF r.kind = "ok" THEN [cur EXCEPT !.user = r.res] ELSE cur
          /\ introspections' = IF r.introspect THEN handle_error(r.kind)
                               ELSE introspections
          /\ exc' = IF r.kind \in {"ok", "ValueError"} THEN exc ELSE r.kind
          /\ pc' = AfterIdentityPc(r.kind)
          /\ secFreed' = secFreed + ZfreeItemCalls(r.kind)
    /\ secAcquired' = secAcquired + 1
    /\ UNCHANGED <<entry, envVars, findVars, pending, interactive, isatty, keyslot,
                   needLogin, password, pwReads, checkCalls, slotsAcquired,
                   slotsFreed, non_fatal, files, probes, credentials, doc, cursor,
                   ri, yielded, skipped, outputs, caught, doneCalls>>
    /\ UNCHANGED otherThanDec

\* passw = self.proxy.decrypt(passw)
DpDecryptPass ==
    /\ pc = "dp_dec_pass"
    /\ LET r == decrypt(cur.passw, non_fatal) IN
          /\ calls' = Append(calls, [rec |-> ri, field |-> "passw", data |-> cur.passw])
          /\ cur' = IF r.kind = "ok" THEN [cur EXCEPT !.passw = r.res] ELSE cur
          /\ introspections' = IF r.introspect THEN handle_error(r.kind)
                               ELSE introspections
          /\ exc' = IF r.kind \in {"ok", "ValueError"} THEN exc ELSE r.kind
          /\ pc' = CASE r.kind = "ok" -> "dp_append"
                     [] r.kind = "ValueError" -> "dp_sentinel"
                     [] OTHER -> DpRaisePc
          /\ secFreed' = secFreed + ZfreeItemCalls(r.kind)
    /\ secAcquired' = secAcquired + 1
    /\ UNCHANGED <<entry, envVars, findVars, pending, interactive, isatty, keyslot,
                   needLogin, password, pwReads, checkCalls, slotsAcquired,
                   slotsFreed, non_fatal, files, probes, credentials, doc, cursor,
                   ri, yielded, skipped, outputs, caught, doneCalls>>
    /\ UNCHANGED otherThanDec

\* a handler that marks the password only
OnDecryptFailure_SecretOnly(r) == [r EXCEPT !.passw = Sentinel]

\* user = "*** decryption failed ***"; passw = "*** decryption failed ***"
OnDecryptFailure(r) == [r EXCEPT !.user = Sentinel, !.passw = Sentinel]

\* except (TypeError, ValueError) as e: ...
DpSentinel ==
    /\ pc = "dp_sentinel"
    /\ cur' = OnDecryptFailure(cur)
    /\ pc' = "dp_append"
    /\ UNCHANGED <<entry, exc, envVars, findVars, authVars, non_fatal, files,
                   probes, credentials, doc, cursor, ri, yielded, skipped, calls,
                   outputs, caught, doneCalls, secAcquired, secFreed>>
    /\ UNCHANGED otherThanDec

\* output = {"url": url, "user": user, "password": passw}; outputs.append(output)
DpAppend ==
    /\ pc = "dp_append"
    /\ outputs' = Append(outputs, [url |-> cur.url, user |-> cur.user,
                                   password |-> cur.passw])
    /\ pc' = "dp_iter"
    /\ UNCHANGED <<entry, exc, envVars, findVars, authVars, non_fatal, files,
                   probes, credentials, doc, cursor, ri, yielded, skipped, cur,
                   calls, caught, doneCalls, secAcquired, secFreed>>
    /\ UNCHANGED otherThanDec

\* the source is exhausted: credentials.done(); return outputs
DpClose ==
    /\ pc = "dp_iter"
    /\ doc.hasLogins
    /\ cursor = Len(doc.entries)
    /\ doneCalls' = doneCalls + 1
    /\ pc' = DpReturnPc
    /\ UNCHANGED <<entry, exc, envVars, findVars, authVars, non_fatal, files,
                   probes, credentials, doc, cursor, ri, yielded, skipped, cur,
                   calls, outputs, caught, secAcquired, secFreed>>
    /\ UNCHANGED otherThanDec

\* --------------------------------------------------- module-level driver
\* load_libnss: os.environ.get("NSS_LIB_PATH", "") (unset here), then the
\* system library finder, then the platform's directories (the first one)
LoadLibnssLocations == <<"", "", "/usr/lib">>

DrvIdle ==
    /\ sections = <<>>
    /\ si = 0
    /\ visited = {}
    /\ invalid = {}
    /\ completed = {}

\* moz = MozillaInteraction(): NSSProxy(non_fatal_decryption=True) calls
\* load_libnss(), which calls find_nss(locations, nssname)
DrvConstruct ==
    /\ pc = "start"
    /\ non_fatal' = TRUE
    /\ locations' = LoadLibnssLocations
    /\ path0' = PATH
    /\ cwd0' = cwd
    /\ pc' = "find_loop"
    /\ UNCHANGED <<entry, exc, envVars, li, fail_errors, workdir, nss, attempts,
                   considered, authVars, files, probes, credentials, doc, cursor,
                   ri, yielded, skipped, cur, calls, outputs, caught, doneCalls,
                   secAcquired, secFreed, drvVars>>

\* NSSProxy.__init__: every _set_ctypes finds its symbol in the library
DrvBind ==
    /\ pc = "bind"
    /\ pc' = "read_profiles"
    /\ UNCHANGED <<entry, exc, envVars, findVars, authVars, decVars, drvVars>>

\* NSSProxy._set_ctypes: getattr(self.libnss, name) raises AttributeError,
\* outside every try of the driver
DrvBindFail ==
    /\ pc = "bind"
    /\ exc' = "AttributeError"
    /\ pc' = "aborted"
    /\ UNCHANGED <<entry, envVars, findVars, authVars, decVars, drvVars>>

\* profiles = read_profiles(basepath); sections = list(get_sections(profiles))
DrvReadProfiles ==
    /\ pc = "read_profiles"
    /\ \E n \in 0..MaxProfiles : sections' = [i \in 1..n |-> i]
    /\ pc' = "loop"
    /\ UNCHANGED <<entry, exc, envVars, findVars, authVars, decVars, si, visited,
                   invalid, completed>>

\* read_profiles: profiles.ini is not a file, raise Exit(Exit.MISSING_PROFILEINI)
DrvNoProfileIni ==
    /\ pc = "read_profiles"
    /\ exc' = "Exit.MISSING_PROFILEINI"
    /\ pc' = "aborted"
    /\ UNCHANGED <<entry, envVars, findVars, authVars, decVars, drvVars>>

\* for section in sections: the profile is a directory, the try block starts;
\* the objects of the previous iteration are gone
DrvNextSection ==
    /\ pc = "loop"
    /\ si < Len(sections)
    /\ si' = si + 1
    /\ visited' = visited \cup {si + 1}
    /\ pc' = "load_profile"
    /\ keyslot' = "none" /\ needLogin' = "unasked" /\ password' = "unset"
    /\ pwReads' = 0 /\ checkCalls' = <<>>
    /\ slotsAcquired' = 0 /\ slotsFreed' = 0 /\ introspections' = <<>>
    /\ files' = {} /\ probes' = <<>> /\ credentials' = "none" /\ doc' = NoDoc
    /\ cursor' = 0 /\ ri' = 0 /\ yielded' = <<>> /\ skipped' = 0 /\ cur' = NoRec
    /\ calls' = <<>> /\ outputs' = <<>> /\ caught' = "none" /\ doneCalls' = 0
    /\ secAcquired' = 0 /\ secFreed' = 0
    /\ UNCHANGED <<entry, exc, envVars, findVars, pending, interactive, isatty,
                   non_fatal, sections, invalid, completed>>

\* if not os.path.isdir(profile): raise Exit(Exit.BAD_PROFILEINI), outside the try
DrvNotDirectory ==
    /\ pc = "loop"
    /\ si < Len(sections)
    /\ si' = si + 1
    /\ exc' = "Exit.BAD_PROFILEINI"
    /\ pc' = "aborted"
    /\ UNCHANGED <<entry, envVars, findVars, authVars, decVars, sections, visited,
                   invalid, completed>>

\* the for loop over sections is exhausted
DrvDone ==
    /\ pc = "loop"
    /\ si = Len(sections)
    /\ pc' = "done"
    /\ UNCHANGED <<entry, exc, envVars, findVars, authVars, decVars, drvVars>>

\* moz.load_profile(profile): NSSProxy.initialize, NSS_Init returned 0
DrvLoadProfile ==
    /\ pc = "load_profile"
    /\ pending' = Append(pending, si)
    /\ pc' = "auth_slot"
    /\ UNCHANGED <<entry, exc, envVars, findVars, interactive, isatty, keyslot,
                   needLogin, password, pwReads, checkCalls, slotsAcquired,
                   slotsFreed, introspections, decVars, drvVars>>

\* NSSProxy.initialize: if err_status: LOG.info(...); raise Exception
DrvLoadProfileFail ==
    /\ pc = "load_profile"
    /\ exc' = "Exception"
    /\ pc' = "except"
    /\ UNCHANGED <<entry, envVars, findVars, authVars, decVars, drvVars>>

\* formatter = HumanOutputFormat(outputs); formatter.output(): the records
\* are written, outputs is not read again and the locals of
\* decrypt_passwords are gone
DrvOutput ==
    /\ pc = "output"
    /\ pc' = "unload"
    /\ files' = {} /\ probes' = <<>> /\ credentials' = "none" /\ doc' = NoDoc
    /\ cursor' = 0 /\ ri' = 0 /\ yielded' = <<>> /\ skipped' = 0 /\ cur' = NoRec
    /\ calls' = <<>> /\ outputs' = <<>> /\ caught' = "none" /\ doneCalls' = 0
    /\ secAcquired' = 0 /\ secFreed' = 0
    /\ UNCHANGED <<entry, exc, envVars, findVars, authVars, non_fatal, drvVars>>

\* sys.stdout.write(record) raises (closed pipe, unencodable text)
DrvOutputFail ==
    /\ pc = "output"
    /\ exc' = "OSError"
    /\ pc' = "except"
    /\ files' = {} /\ probes' = <<>> /\ credentials' = "none" /\ doc' = NoDoc
    /\ cursor' = 0 /\ ri' = 0 /\ yielded' = <<>> /\ skipped' = 0 /\ cur' = NoRec
    /\ calls' = <<>> /\ outputs' = <<>> /\ caught' = "none" /\ doneCalls' = 0
    /\ secAcquired' = 0 /\ secFreed' = 0
    /\ UNCHANGED <<entry, envVars, findVars, authVars, non_fatal, drvVars>>

\* moz.unload_profile(): NSS_Shutdown returned 0; print("")
DrvUnload ==
    /\ pc = "unload"
    /\ pending' = <<>>
    /\ completed' = completed \cup {si}
    /\ pc' = "loop"
    /\ UNCHANGED <<entry, exc, envVars, findVars, interactive, isatty, keyslot,
                   needLogin, password, pwReads, checkCalls, slotsAcquired,
                   slotsFreed, introspections, decVars, sections, si, visited,
                   invalid>>

\* NSSProxy.shutdown: if err_status: self.handle_error(Exit.FAIL_SHUTDOWN_NSS, ...)
DrvUnloadFail ==
    /\ pc = "unload"
    /\ pending' = <<>>
    /\ introspections' = handle_error("Exit.FAIL_SHUTDOWN_NSS")
    /\ exc' = "Exit.FAIL_SHUTDOWN_NSS"
    /\ pc' = "except"
    /\ UNCHANGED <<entry, envVars, findVars, interactive, isatty, keyslot,
                   needLogin, password, pwReads, checkCalls, slotsAcquired,
                   slotsFreed, decVars, drvVars>>

\* a handler that lets the error end the run
AfterExceptPc_Abort == "aborted"

\* except: print(f"Invalid profile ({profile})"); continue
AfterExceptPc == "loop"

DrvExcept ==
    /\ pc = "except"
    /\ invalid' = invalid \cup {si}
    /\ exc' = IF AfterExceptPc = "loop" THEN "none" ELSE exc
    /\ pc' = AfterExceptPc
    /\ UNCHANGED <<entry, envVars, findVars, authVars, decVars, sections, si,
                   visited, completed>>

FindIdle ==
    /\ PATH = <<"/bin">>
    /\ cwd = "/home"
    /\ locations = <<>>
    /\ li = 0
    /\ fail_errors = <<>>
    /\ workdir = "unset"
    /\ attempts = <<>>
    /\ considered = <<>>
    /\ path0 = PATH
    /\ cwd0 = cwd

\* authenticate(profile, interactive) called on an initialized session
InitAuth ==
    /\ entry = "authenticate"
    /\ pc = "auth_slot"
    /\ exc = "none"
    /\ SYSTEM \in Systems
    /\ dirs = {}
    /\ FindIdle
    /\ nss = [loaded |-> TRUE, from |-> "", index |-> 1]
    /\ pending = <<1>>
    /\ interactive \in BOOLEAN
    /\ isatty \in BOOLEAN
    /\ AuthInit
    /\ non_fatal = TRUE
    /\ DecInit
    /\ DrvIdle

NextAuth == AuthGetSlot \/ AuthSlotNull \/ AuthNeedLogin \/ AuthAskPassword
               \/ AuthCheckPassword \/ AuthFreeSlot

SpecAuth == InitAuth /\ [][NextAuth]_vars

\* decrypt_passwords() called on an authenticated session, in either mode
InitDecrypt ==
    /\ entry = "decrypt_passwords"
    /\ pc = "dp_obtain"
    /\ exc = "none"
    /\ SYSTEM = "Linux"
    /\ dirs = {}
    /\ FindIdle
    /\ nss = [loaded |-> TRUE, from |-> "", index |-> 1]
    /\ pending = <<1>>
    /\ interactive = FALSE
    /\ isatty = FALSE
    /\ AuthInit
    /\ non_fatal \in BOOLEAN
    /\ DecInit
    /\ DrvIdle

NextDecrypt == DpOpen \/ DpNoStore \/ DpCorrupt \/ DpSkip \/ DpYield
                  \/ DpDecryptUser \/ DpDecryptPass \/ DpSentinel \/ DpAppend
                  \/ DpClose

SpecDecrypt == InitDecrypt /\ [][NextDecrypt]_vars

\* the two operations that hold NSS resources, authenticate() and
\* decrypt_passwords(), each called on its own on an initialized session
InitProxy == InitAuth \/ InitDecrypt

NextProxy == NextAuth \/ NextDecrypt

SpecProxy == InitProxy /\ [][NextProxy]_vars

\* find_nss(locations, nssname) called with any candidate list, on any platform
InitFind ==
    /\ entry = "find_nss"
    /\ pc = "find_loop"
    /\ exc = "none"
    /\ SYSTEM \in Systems
    /\ dirs \in SUBSET DirNames
    /\ PATH = <<"/bin">>
    /\ cwd = "/home"
    /\ locations \in SeqsUpTo(Candidates, MaxLocs)
    /\ li = 0
    /\ fail_errors = <<>>
    /\ workdir = "unset"
    /\ nss = NoLib
    /\ attempts = <<>>
    /\ considered = <<>>
    /\ path0 = PATH
    /\ cwd0 = cwd
    /\ pending = <<>>
    /\ interactive = FALSE
    /\ isatty = FALSE
    /\ AuthInit
    /\ non_fatal = TRUE
    /\ DecInit
    /\ DrvIdle

NextFind == FindSkip \/ FindEnter \/ FindLoadOk \/ FindLoadFail \/ FindFinally
               \/ FindExhausted

SpecFind == InitFind /\ [][NextFind]_vars

\* the program as run: the state before "moz = MozillaInteraction()"
Init ==
    /\ entry = "driver"
    /\ pc = "start"
    /\ exc = "none"
    /\ SYSTEM \in Systems
    /\ dirs = {}
    /\ FindIdle
    /\ nss = NoLib
    /\ pending = <<>>
    /\ interactive = FALSE
    /\ isatty = FALSE
    /\ AuthInit
    /\ non_fatal = TRUE
    /\ DecInit
    /\ DrvIdle

Next ==
    \/ DrvConstruct \/ FindSkip \/ FindEnter \/ FindLoadOk \/ FindLoadFail
    \/ FindFinally \/ FindExhausted \/ DrvBind \/ DrvBindFail
    \/ DrvReadProfiles \/ DrvNoProfileIni \/ DrvNextSection \/ DrvNotDirectory
    \/ DrvDone \/ DrvLoadProfile \/ DrvLoadProfileFail
    \/ AuthGetSlot \/ AuthSlotNull \/ AuthNeedLogin \/ AuthAskPassword
    \/ AuthCheckPassword \/ AuthFreeSlot
    \/ DpOpen \/ DpNoStore \/ DpCorrupt \/ DpSkip \/ DpYield \/ DpDecryptUser
    \/ DpDecryptPass \/ DpSentinel \/ DpAppend \/ DpClose
    \/ DrvOutput \/ DrvOutputFail \/ DrvUnload \/ DrvUnloadFail \/ DrvExcept

Spec == Init /\ [][Next]_vars

\* ======================================================================
\* Properties of find_nss (checked under SpecFind)
\* ======================================================================
FindOver == pc \in {"returned", "raised"}
Attempted(i) == \E k \in 1..Len(attempts) : attempts[k].index = i
\* candidates 1..n, each once, in list order
UpTo(n) == [i \in 1..n |-> i]
\* the candidates passed so far, the latest first, as PATH holds them
RECURSIVE Prepended(_)
Prepended(n) == IF n = 0 THEN <<>> ELSE <<locations[n]>> \o Prepended(n - 1)

\* C8: find_nss tries the candidates in the given order and returns the
\* handle of the first candidate whose load succeeds; no later candidate is
\* considered, and when no candidate loads it raises Exit(FAIL_LOCATE_NSS)
\* after having considered every candidate exactly once.
C8_FirstLoadWins ==
    /\ \A i, j \in 1..Len(attempts) : i < j => attempts[i].index < attempts[j].index
    /\ \A i \in 1..Len(attempts) : attempts[i].loc = locations[attempts[i].index]
    /\ considered = UpTo(li)
    /\ pc = "returned" =>
          /\ nss.loaded /\ nss.from = locations[nss.index]
          /\ Len(attempts) > 0
          /\ attempts[Len(attempts)].ok /\ attempts[Len(attempts)].index = nss.index
          /\ \A i \in 1..(Len(attempts) - 1) : ~attempts[i].ok
          /\ li = nss.index
          /\ exc = "none"
    /\ pc = "raised" =>
          /\ exc = "Exit.FAIL_LOCATE_NSS"
          /\ ~nss.loaded
          /\ \A i \in 1..Len(attempts) : ~attempts[i].ok
          /\ considered = UpTo(Len(locations))

\* a second candidate wins after the first failed, and a third one is left untried
C8_Witness ==
    /\ pc = "returned" /\ nss.index = 2 /\ Len(attempts) = 2 /\ Len(locations) = 3

\* C9 (as claimed): when find_nss returns or raises, PATH and the working
\* directory are identical to their values before the call, on every platform.
C9_EnvAndCwdRestored == FindOver => (PATH = path0 /\ cwd = cwd0)

\* C9 (amended): the working directory is restored after every load attempt
\* and is identical to its value before the call when find_nss returns or
\* raises; PATH is unchanged on platforms other than Windows and Darwin,
\* while on Windows and Darwin every candidate the loop passed (attempted or
\* skipped) stays prepended to PATH, the latest first.
C9_CwdRestoredPathKept ==
    /\ pc \in {"find_loop", "returned", "raised"} => cwd = cwd0
    /\ FindOver =>
          PATH = (IF SYSTEM \in OS THEN Prepended(li) \o path0 ELSE path0)

\* a Windows/Darwin run that changed directory for one load and returned
C9_Witness ==
    /\ pc = "returned" /\ SYSTEM \in OS /\ nss.from # ""
    /\ Len(attempts) = 2 /\ attempts[1].loc # ""

\* C10 (as claimed): on every platform a load is attempted for a candidate
\* if and only if it is the empty string or an existing directory.
C10_LoadIffEmptyOrDir ==
    pc \in {"find_loop", "returned", "raised"} =>
        \A i \in 1..li : Attempted(i) <=> (locations[i] = "" \/ IsDir(locations[i]))

\* C10 (amended): on Windows and Darwin a load is attempted for a candidate
\* if and only if it is the empty string or an existing directory; on every
\* other platform a load is attempted for every candidate the loop reaches,
\* existing directory or not.
C10_LoadIffEmptyOrDirOnOS ==
    pc \in {"find_loop", "returned", "raised"} =>
        \A i \in 1..li :
            Attempted(i) <=> (SYSTEM \notin OS \/ locations[i] = "" \/ IsDir(locations[i]))

\* Windows/Darwin: one candidate skipped for not being a directory, the
\* default loader and an existing directory both tried
C10_Witness ==
    /\ FindOver /\ SYSTEM \in OS
    /\ \E i \in 1..li : locations[i] # "" /\ ~IsDir(locations[i]) /\ ~Attempted(i)
    /\ \E i \in 1..li : locations[i] = "" /\ Attempted(i)
    /\ \E i \in 1..li : IsDir(locations[i]) /\ Attempted(i)

\* ======================================================================
\* Properties of NSSProxy.authenticate (checked under SpecAuth)
\* ======================================================================
AuthOver == pc \in {"returned", "raised"}

\* C7: authenticate reads a password if and only if the key slot reports
\* that login is needed; the password it obtains is passed to
\* PK11_CheckUserPassword exactly once (no retry) and a non-zero status
\* raises Exit(BAD_PRIMARY_PASSWORD); when login is not needed no password
\* is read and PK11_CheckUserPassword is never called.
C7_PasswordIffNeedLogin ==
    /\ pwReads <= 1 /\ Len(checkCalls) <= 1
    /\ pwReads = 1 => needLogin = "yes"
    /\ AuthOver =>
          /\ needLogin = "yes" <=> pwReads = 1
          /\ needLogin # "yes" => (checkCalls = <<>> /\ password = "unset")
          /\ (needLogin = "yes" /\ password # "unset") =>
                 /\ Len(checkCalls) = 1
                 /\ checkCalls[1].password = password
                 /\ checkCalls[1].status = CheckUserPassword(password)
          /\ (needLogin = "yes" /\ password = "unset") =>
                 (checkCalls = <<>> /\ pc = "raised" /\ exc = "EOFError")
          /\ \A i \in 1..Len(checkCalls) :
                 checkCalls[i].status # 0 <=>
                     (pc = "raised" /\ exc = "Exit.BAD_PRIMARY_PASSWORD")

\* a wrong password was read, checked once and refused
C7_Witness ==
    /\ pc = "raised" /\ exc = "Exit.BAD_PRIMARY_PASSWORD"
    /\ needLogin = "yes" /\ pwReads = 1
    /\ Len(checkCalls) = 1 /\ checkCalls[1].password = "letmein"

\* ======================================================================
\* Properties of decrypt_passwords (checked under SpecDecrypt)
\* ======================================================================
DpOver == pc \in {"returned", "raised"}
\* the records the source holds, in storage order
Records == SelectSeq(doc.entries, LAMBDA e : e.missing = "")
\* the decrypt call on c does not give a text back
Fails(c) == c = Damaged \/ c = NotText
\* the fields decrypt was called on for the k-th record, in call order
CallsFor(k) == SelectSeq(calls, LAMBDA c : c.rec = k)
FieldsOf(cs) == [i \in 1..Len(cs) |-> cs[i].field]
\* the loop is done calling decrypt for the k-th record
CallsDone(k) == k < ri \/ pc \notin {"dp_dec_user", "dp_dec_pass"}

\* C2: in non-fatal mode a decrypt failure on either field of a record puts
\* the sentinel in both the identity and the secret of that record's entry,
\* every other record is still processed and gives its decrypted values, and
\* the failure is never raised out of decrypt_passwords.
C2_FailureIsPerRecord ==
    non_fatal =>
        /\ Len(outputs) <= Len(Records)
        /\ \A k \in 1..Len(outputs) :
              LET r == Records[k] IN
              /\ outputs[k].url = r.hostname
              /\ (r.encType # 0 /\ (Fails(r.encryptedUsername) \/ Fails(r.encryptedPassword)))
                    => (outputs[k].user = Sentinel /\ outputs[k].password = Sentinel)
              /\ (r.encType # 0 /\ ~Fails(r.encryptedUsername) /\ ~Fails(r.encryptedPassword))
                    => (outputs[k].user = "alice" /\ outputs[k].password = "s3cret")
        /\ (pc = "returned" /\ credentials # "none") => Len(outputs) = Len(Records)
        /\ pc = "raised" => exc = "Exit.BAD_SECRETS"

\* the secret alone fails in the first record, the second record decrypts
C2_Witness ==
    /\ pc = "returned" /\ non_fatal /\ Len(outputs) = 2 /\ Len(Records) = 2
    /\ Records[1].encType = 1 /\ Records[1].encryptedUsername = "enc:alice"
    /\ Records[1].encryptedPassword = Damaged
    /\ outputs[1].user = Sentinel /\ outputs[1].password = Sentinel
    /\ Records[2].encType = 1 /\ outputs[2].user = "alice"
    /\ outputs[2].password = "s3cret"

\* C3 (as claimed): for every record with a non-zero encoding flag decrypt is
\* invoked exactly twice, on the identity then on the secret, whatever the
\* outcome of either call.
C3_ExactlyTwoCalls ==
    \A k \in 1..ri :
        (CallsDone(k) /\ Records[k].encType # 0) =>
            FieldsOf(CallsFor(k)) = <<"user", "passw">>

\* C3 (amended): for every record with a non-zero encoding flag decrypt is
\* invoked on the identity first, and on the secret if and only if the
\* identity call returned a text: twice (identity, then secret) when the
\* identity decrypts, once (identity only) when the identity call fails.
C3_SecretOnlyAfterIdentity ==
    \A k \in 1..ri :
        (CallsDone(k) /\ Records[k].encType # 0) =>
            /\ FieldsOf(CallsFor(k)) =
                  (IF Fails(Records[k].encryptedUsername)
                   THEN <<"user">> ELSE <<"user", "passw">>)
            /\ CallsFor(k)[1].data = Records[k].encryptedUsername
            /\ Len(CallsFor(k)) = 2 => CallsFor(k)[2].data = Records[k].encryptedPassword

\* one record whose identity fails (one call) and one that decrypts (two calls)
C3_Witness ==
    /\ pc = "returned" /\ ri = 2
    /\ Records[1].encType = 1 /\ Records[1].encryptedUsername = Damaged
    /\ Len(CallsFor(1)) = 1
    /\ Records[2].encType = 1 /\ Len(CallsFor(2)) = 2

\* C4: for every record with encoding flag 0 no decrypt call is made and the
\* entry's identity and secret are the record's identity and secret unchanged.
C4_PlainPassThrough ==
    \A k \in 1..ri :
        Records[k].encType = 0 =>
            /\ CallsFor(k) = <<>>
            /\ (k < ri \/ pc \in {"dp_iter", "returned"}) => k <= Len(outputs)
            /\ k <= Len(outputs) =>
                  outputs[k] = [url |-> Records[k].hostname,
                                user |-> Records[k].encryptedUsername,
                                password |-> Records[k].encryptedPassword]

\* a flag-0 record passed through after a flag-1 record was decrypted
C4_Witness ==
    /\ pc = "returned" /\ Len(outputs) = 2
    /\ Records[1].encType = 1 /\ Len(CallsFor(1)) = 2
    /\ Records[2].encType = 0 /\ outputs[2].user = "enc:alice"

\* C5 (as claimed): with neither logins.json nor signons.sqlite in the
\* profile, decrypt_passwords raises Exit(MISSING_SECRETS) to its caller and
\* produces zero entries.
C5_MissingStoreRaises ==
    (DpOver /\ probes # <<>> /\ files = {}) =>
        (pc = "raised" /\ exc = "Exit.MISSING_SECRETS" /\ outputs = <<>>)

\* C5 (amended): the JSON source is tried first and the SQLite source only
\* after the JSON source reports not-found; with neither file,
\* obtain_credentials raises Exit(MISSING_SECRETS), which decrypt_passwords
\* itself catches: it returns an empty list to its caller and raises nothing.
C5_MissingStoreReturnsEmpty ==
    /\ probes # <<>> =>
          /\ probes[1] = "json"
          /\ Len(probes) = 2 <=> "logins.json" \notin files
          /\ Len(probes) = 2 => probes[2] = "sqlite"
          /\ credentials = "json" <=> "logins.json" \in files
    /\ (DpOver /\ probes # <<>> /\ files = {}) =>
          /\ pc = "returned" /\ exc = "none"
          /\ caught = "Exit.MISSING_SECRETS"
          /\ outputs = <<>> /\ calls = <<>>

\* a profile without either file went through both probes
C5_Witness ==
    /\ pc = "returned" /\ files = {} /\ probes = <<"json", "sqlite">>
    /\ caught = "Exit.MISSING_SECRETS"

\* ======================================================================
\* Properties of the driver's loop over profiles (checked under Spec)
\* ======================================================================
\* the error kinds of the taxonomy, as the code raises them: discovery,
\* bind, initialization, authentication, decryption, missing source,
\* corrupt source, shutdown
FatalKinds ==
    {"Exit.FAIL_LOCATE_NSS", "AttributeError", "Exception",
     "Exit.FAIL_NSS_KEYSLOT", "Exit.BAD_PRIMARY_PASSWORD",
     "Exit.DECRYPTION_FAILED", "Exit.MISSING_SECRETS", "Exit.BAD_SECRETS",
     "Exit.FAIL_SHUTDOWN_NSS"}
\* the errors that reach the driver from inside the try block of a profile
InTryKinds ==
    {"Exception", "Exit.FAIL_NSS_KEYSLOT", "Exit.BAD_PRIMARY_PASSWORD",
     "Exit.BAD_SECRETS", "OSError", "Exit.FAIL_SHUTDOWN_NSS"}
\* the errors raised before the loop, outside every try
BeforeLoopKinds == {"Exit.FAIL_LOCATE_NSS", "AttributeError", "Exit.MISSING_PROFILEINI"}

\* C1: library sessions never overlap: NSS_Init is called for a profile only
\* when NSS_Shutdown has been called for every earlier profile whose NSS_Init
\* succeeded, so at most one session is open at any time, also when
\* authenticate, decryption or output fails for a profile.
C1_SessionsNeverOverlap ==
    /\ pc = "load_profile" => pending = <<>>
    /\ Len(pending) <= 1

\* C6 (as claimed): no fatal error of the taxonomy aborts the whole batch.
C6_NoErrorAbortsBatch == pc = "aborted" => exc \notin FatalKinds

\* C6 (amended): every error raised inside the try block of one profile
\* (initialization, key slot, wrong password, corrupt source, output,
\* shutdown) is caught at that profile's boundary: the profile is reported
\* invalid and every remaining profile is still processed. A missing source
\* never reaches the driver (decrypt_passwords absorbs it and the profile is
\* not reported for it) and a decrypt failure is not an error in the driver's
\* non-fatal mode. Discovery and bind errors are raised while the driver
\* builds MozillaInteraction, before the loop and outside every try: they end
\* the run with no profile processed, as does a missing profiles.ini; a
\* section that is not a directory ends the run where it is met.
C6_TryBlockErrorsAreCaught ==
    /\ pc = "aborted" => exc \in BeforeLoopKinds \cup {"Exit.BAD_PROFILEINI"}
    /\ (pc = "aborted" /\ exc \in BeforeLoopKinds) => (visited = {} /\ si = 0)
    /\ exc \in InTryKinds =>
          (pc \in {"except", "auth_free"} /\ si \in visited /\ si \notin completed)
    /\ exc \notin {"Exit.MISSING_SECRETS", "Exit.DECRYPTION_FAILED"}
    /\ pc \in {"loop", "done"} =>
          /\ visited = 1..si
          /\ invalid \cup completed = visited
          /\ invalid \cap completed = {}
          /\ (si > 0 /\ (keyslot = "null" \/ introspections # <<>> \/ ~doc.hasLogins))
                => si \in invalid
    /\ pc = "done" => visited = 1..Len(sections)

\* the first profile raised inside its try block and was reported invalid,
\* the second one was still processed to the end
C6_Witness ==
    /\ pc = "done" /\ Len(sections) = 2
    /\ invalid = {1} /\ completed = {2}

\* ======================================================================
\* Properties of JsonCredentials.__iter__ (checked under SpecDecrypt)
\* ======================================================================
\* the positions, among the first n entries of the document, of the entries
\* that satisfy P, in document order
RECURSIVE Positions(_, _)
Positions(P(_), n) ==
    IF n = 0 THEN <<>>
    ELSE IF P(doc.entries[n]) THEN Append(Positions(P, n - 1), n)
         ELSE Positions(P, n - 1)
HasThreeMandatory(e) ==
    e.missing \notin {"hostname", "encryptedUsername", "encryptedPassword"}
HasFourKeys(e) == e.missing = ""

\* C11 (as claimed): iterating a JsonCredentials source yields, in document
\* order, exactly the entries in which hostname, encryptedUsername and
\* encryptedPassword are present; no other validation removes an entry.
C11_ThreeMandatoryFields ==
    (credentials = "json" /\ doc.hasLogins /\ pc = "dp_iter") =>
        yielded = Positions(HasThreeMandatory, cursor)

\* C11 (amended): iterating a JsonCredentials source whose document has a
\* logins array yields, in document order and without reordering or
\* deduplication, exactly the entries in which the four keys it reads
\* (hostname, encryptedUsername, encryptedPassword, encType) are present; an
\* entry missing any of the four is skipped without raising, so one such
\* entry gives one fewer record than the entry count.
C11_FourKeysInOrder ==
    (credentials = "json" /\ doc.hasLogins) =>
        /\ yielded = Positions(HasFourKeys, cursor)
        /\ ri = Len(yielded)
        /\ skipped = cursor - Len(yielded)
        /\ exc \in {"none", "Exit.DECRYPTION_FAILED"}
        /\ pc = "returned" =>
              (cursor = Len(doc.entries) /\ Len(outputs) = Len(doc.entries) - skipped)

\* a document of two entries whose first has no encryptedPassword was
\* iterated to its end: the second entry is the only record
C11_Witness ==
    /\ pc = "returned" /\ credentials = "json" /\ Len(doc.entries) = 2
    /\ doc.entries[1].missing = "encryptedPassword"
    /\ yielded = <<2>> /\ skipped = 1 /\ Len(outputs) = 1

\* ======================================================================
\* Release of NSS resources (checked under SpecProxy)
\* ======================================================================
\* C12: every key slot acquired by authenticate and every output SecureItem
\* buffer acquired by decrypt is released exactly once before that call
\* returns or raises, on every path: a slot is never released before it is
\* acquired nor twice, it is held only while authenticate is inside its try
\* block, a null slot is neither acquired nor released, and every decrypt
\* call, whatever its outcome in either mode, has released its buffer when
\* it is over.
C12_ReleasedExactlyOnce ==
    /\ slotsFreed <= slotsAcquired /\ slotsAcquired <= 1
    /\ (keyslot = "held") = (slotsAcquired = slotsFreed + 1)
    /\ (keyslot = "held") = (pc \in {"auth_needlogin", "auth_ask", "auth_check", "auth_free"})
    /\ (keyslot = "freed") = (slotsAcquired = 1 /\ slotsFreed = 1)
    /\ keyslot = "null" => (slotsAcquired = 0 /\ slotsFreed = 0)
    /\ (entry = "authenticate" /\ AuthOver) =>
          /\ keyslot \in {"freed", "null"}
          /\ slotsFreed = slotsAcquired
          /\ keyslot = "null" <=> exc = "Exit.FAIL_NSS_KEYSLOT"
    /\ secAcquired = Len(calls)
    /\ secFreed = secAcquired

\* fatal mode: the identity decrypted, the secret did not, and the error is
\* on its way to the caller with both buffers released
C12_Witness ==
    /\ entry = "decrypt_passwords" /\ ~non_fatal /\ pc = "raised"
    /\ exc = "Exit.DECRYPTION_FAILED"
    /\ secAcquired = 2 /\ secFreed = 2

\* reading the password failed and authenticate raised with the slot released
C12_WitnessSlot ==
    /\ entry = "authenticate" /\ pc = "raised" /\ exc = "EOFError"
    /\ slotsAcquired = 1 /\ slotsFreed = 1

\* output decoding failed in non-fatal mode and the buffer was released
C12_WitnessDecode ==
    /\ entry = "decrypt_passwords" /\ non_fatal /\ Len(calls) = 2
    /\ calls[2].data = NotText /\ secFreed = 2

\* ======================================================================
\* Closing of the credential source (checked under SpecDecrypt)
\* ======================================================================
\* C13: every credential source that decrypt_passwords opens is closed
\* (done()) exactly once before decrypt_passwords returns or raises, on
\* every exit path: exhaustion of the records, a fatal error raised while
\* iterating the source, a fatal decrypt error in the middle of the batch.
C13_SourceClosedOnce ==
    /\ doneCalls <= 1
    /\ credentials = "none" => doneCalls = 0
    /\ (DpOver /\ credentials # "none") => doneCalls = 1

\* what the code does: done() has run exactly when decrypt_passwords
\* returned after the loop; a raise leaves the source open
C13_ClosedOnReturnOnly ==
    /\ doneCalls <= 1
    /\ (doneCalls = 1) = (pc = "returned" /\ credentials # "none")

\* a SQLite source left open by a fatal decrypt error in the batch
C13_LeakReached ==
    /\ pc = "raised" /\ credentials = "sqlite" /\ exc = "Exit.DECRYPTION_FAILED"
    /\ doneCalls = 0

\* ======================================================================
\* Error introspection (checked under Spec; the decrypt modes under SpecProxy)
\* ======================================================================
\* the errors that report a failure signalled by the library
LibraryErrors ==
    {"Exception", "Exit.FAIL_NSS_KEYSLOT", "Exit.BAD_PRIMARY_PASSWORD",
     "Exit.DECRYPTION_FAILED", "Exit.FAIL_SHUTDOWN_NSS"}
\* the error is on its way to the caller of the operation
BeingRaised == pc \in {"except", "raised"}
\* the decrypt calls so far for which PK11SDR_Decrypt gave a non-zero status
FailedDecrypts == {k \in 1..Len(calls) : SDRStatus(calls[k].data) # 0}
\* the runs of handle_error for a decrypt failure
DecryptIntrospections ==
    {k \in 1..Len(introspections) : introspections[k] = "Exit.DECRYPTION_FAILED"}

\* C14: whenever a library call signals failure (non-zero status from
\* initialize, check-password, decrypt or shutdown, or a null key slot), the
\* error-introspection path has run before the error is raised to the
\* caller, in the fatal and in the non-fatal decryption mode: an error for a
\* library failure is never on its way to the caller without an
\* introspection, and every failed decrypt call has been introspected.
C14_FailureIsIntrospected ==
    /\ (BeingRaised /\ exc \in LibraryErrors) =>
          /\ introspections # <<>>
          /\ exc # "Exception" => introspections[Len(introspections)] = exc
    /\ Cardinality(FailedDecrypts) <= Cardinality(DecryptIntrospections)

\* what the code does: handle_error runs for a null key slot, a rejected
\* password, a failed shutdown and a failed decrypt in fatal mode; the error
\* of a failed initialize and the ValueError of a failed decrypt in non-fatal
\* mode are raised with no introspection
C14_IntrospectedButInitAndNonFatal ==
    /\ (BeingRaised /\ exc \in LibraryErrors \ {"Exception"}) =>
          (introspections # <<>> /\ introspections[Len(introspections)] = exc)
    /\ (BeingRaised /\ exc = "Exception") => introspections = <<>>
    /\ non_fatal => DecryptIntrospections = {}
    /\ (~non_fatal /\ entry = "decrypt_passwords") =>
          Cardinality(FailedDecrypts) = Cardinality(DecryptIntrospections)

\* a failed initialize reaches the driver's handler with nothing logged
C14_InitNotIntrospected ==
    pc = "except" /\ exc = "Exception" /\ introspections = <<>>

\* a failed decrypt in non-fatal mode was answered with the sentinel and
\* nothing was logged
C14_NonFatalNotIntrospected ==
    /\ non_fatal /\ pc = "dp_sentinel" /\ FailedDecrypts # {}
    /\ introspections = <<>>

====
